---- MODULE Spec2Model ----
(***************************************************************************)
(* Model of the yolo backend: the price cache of PriceFeedService          *)
(* (backend/app/services/price_feed.py), the delegated transaction         *)
(* builders of AvantisService (backend/app/services/avantis.py) and the    *)
(* build-open router's bounded price read (backend/app/routers/trades.py). *)
(*                                                                         *)
(* The service runs on one asyncio event loop: the code between two        *)
(* awaits is one atomic step.  Each action below is one such segment.      *)
(* The "agent log" writes to a debug file are not modelled (the file is    *)
(* taken to be writable).                                                  *)
(***************************************************************************)
EXTENDS Integers, Sequences, FiniteSets, TLC

----------------------------------------------------------------------------
(* Program constants *)

\* self._cache_ttl
CACHE_TTL == 5
\* asyncio.wait_for(feed_client.get_latest_price_updates(...), timeout=10.0)
FETCH_TIMEOUT == 10
\* asyncio.wait_for(price_feed_service.get_price(...), timeout=12.0)
PRICE_WAIT == 12

(* Bounds of the model *)

\* the clock stops at MaxTime
MaxTime == 12
\* longest time the synchronous load_pair_feeds() call may block the loop
MaxLoad == 2
\* longest request list of get_prices and longest parsed response of the feed
MaxLen == 2

Symbols == {"BTC/USD", "ETH/USD"}
Callers == {"c1", "c2"}
\* the prices the feed reports
Prices == {1, 2}

\* sequences over S of length at most n
RECURSIVE SeqsUpTo(_, _)
SeqsUpTo(S, n) ==
    IF n = 0 THEN {<<>>}
    ELSE LET shorter == SeqsUpTo(S, n - 1)
         IN  shorter \cup {Append(q, x) : q \in {r \in shorter : Len(r) = n - 1}, x \in S}

\* request lists of get_prices: distinct pairs (the callers build them from a set)
PairLists ==
    {q \in SeqsUpTo(Symbols, MaxLen) : \A i, j \in 1..Len(q) : q[i] = q[j] => i = j}
ParsedLists == SeqsUpTo(Prices, MaxLen)

\* a Python dict with no key
EmptyMap == [s \in {} |-> <<0, 0>>]

\* d[k] = v on a Python dict
Put(d, k, v) == [s \in (DOMAIN d) \cup {k} |-> IF s = k THEN v ELSE d[s]]

----------------------------------------------------------------------------
VARIABLES
    now,          \* time.time(), in seconds
    cache,        \* PriceFeedService._cache: pair -> <<price, timestamp>>
    feedsLoaded,  \* PriceFeedService._feeds_loaded
    call,         \* the coroutines running get_price / get_prices, per caller
    build,        \* the coroutine running a transaction builder of AvantisService
    pnl           \* the coroutine running a PnL computation or report

vars == <<now, cache, feedsLoaded, call, build, pnl>>
priceVars == <<now, cache, feedsLoaded, call>>

\* pc: idle, fetching (suspended in the await of the bounded fetch), done (the
\* value is being handed to the caller).  fetch records what became of the
\* fetch this call issued; resp the parsed response it got.  loaded: what
\* _ensure_feeds_loaded did in this call: "none" (not called), "skipped" (the
\* flag was set), "ok" (load_pair_feeds returned), "failed" (it raised).
IdleCall ==
    [pc |-> "idle", op |-> "none", via |-> "direct", pairs |-> <<>>,
     started |-> 0, fetchStart |-> 0, loaded |-> "none",
     fetch |-> "none", resp |-> <<>>, ret |-> "none", result |-> EmptyMap]

\* an UnsignedTx that was never built
NoTx == [to |-> "", data |-> [fn |-> "none"], value |-> 0, chain_id |-> 0]

\* pc: idle, sdkBuild (awaiting build_trade_open_tx), feeRead (awaiting
\* get_trade_execution_fee), done.  bounded: the awaited call is wrapped in
\* asyncio.wait_for.  path: which encoding produced the inner calldata.
\* feeSrc: where execution_fee came from: "sdk" (the value of the SDK's
\* transaction), "absent" (no value key, 0 taken), "oracle" (the answer of
\* get_trade_execution_fee), "default" (the constant of the except branch).
\* started: when the bounded SDK build of the open builder was awaited.
IdleBuild ==
    [pc |-> "idle", op |-> "none", req |-> [trader |-> [id |-> "", form |-> ""]],
     bounded |-> FALSE, path |-> "none", ret |-> "none", err |-> "none",
     fee |-> 0, feeSrc |-> "none", tx |-> NoTx, started |-> 0]

\* pc: idle, tradesRead (awaiting get_trades), pricesRead (awaiting
\* get_prices), loop (between two trades of the report), display (the
\* endpoint awaiting its own get_prices), done.  result: the list returned by
\* get_trades_with_pnl; positions: the list of the endpoint's response;
\* out: the pair returned by calculate_pnl.
IdlePnl ==
    [pc |-> "idle", op |-> "none", via |-> "direct", trades |-> <<>>,
     names |-> <<>>, prices |-> EmptyMap, fetches |-> 0, result |-> <<>>,
     ret |-> "none", err |-> "none", args |-> <<>>, out |-> <<>>,
     status |-> 0, positions |-> <<>>]

Init ==
    /\ pnl = IdlePnl
    /\ now = 0
    /\ cache = EmptyMap
    /\ feedsLoaded = FALSE
    /\ call = [c \in Callers |-> IdleCall]
    /\ build = IdleBuild

\* a returned value is received by the caller before the loop runs anything else
NoneDone == \A c \in Callers : call[c].pc # "done"

\* how long load_pair_feeds() blocks: it returns at once or after MaxLoad
LoadTimes == {0, MaxLoad}

Finish(c, fetch, resp, ret, result) ==
    [call EXCEPT ![c].pc = "done", ![c].started = 0, ![c].fetchStart = 0,
                 ![c].fetch = fetch, ![c].resp = resp,
                 ![c].ret = ret, ![c].result = result]

----------------------------------------------------------------------------
(* PriceFeedService._ensure_feeds_loaded, called with the loop blocked *)

\* the flag set before load_pair_feeds is called
EnsureFeedsLoaded_FlagFirst(d, ok) ==
    IF feedsLoaded
    THEN /\ d = 0
         /\ ok
         /\ UNCHANGED <<now, feedsLoaded>>
    ELSE /\ now + d <= MaxTime
         /\ ~ok => d = 0
         /\ now' = now + d
         /\ feedsLoaded' = TRUE

\* what the call did, for the record of the calling coroutine
LoadOutcome(ok) ==
    IF feedsLoaded THEN "skipped" ELSE IF ok THEN "ok" ELSE "failed"

\* the call is made only when the flag is unset; ok: load_pair_feeds returned
\* after blocking for d, otherwise it raised (at once) and the flag stays unset
EnsureFeedsLoaded(d, ok) ==
    IF feedsLoaded
    THEN /\ d = 0
         /\ ok
         /\ UNCHANGED <<now, feedsLoaded>>
    ELSE /\ now + d <= MaxTime
         /\ ~ok => d = 0
         /\ now' = now + d
         /\ feedsLoaded' = ok

----------------------------------------------------------------------------
(* PriceFeedService.get_price *)

\* the comparison turned around
Fresh_Reversed(entry, t) == t - entry[2] > CACHE_TTL

\* time.time() - cached_time < self._cache_ttl
Fresh(entry, t) == t - entry[2] < CACHE_TTL

\* the dict replaced instead of updated: self._cache = {pair: (price, timestamp)}
StorePrice_Replace(cch, pair, price, t) == Put(EmptyMap, pair, <<price, t>>)

\* the new price stored under the timestamp of the entry it replaces
StorePrice_Mixed(cch, pair, price, t) ==
    IF pair \in DOMAIN cch THEN Put(cch, pair, <<price, cch[pair][2]>>)
    ELSE Put(cch, pair, <<price, t>>)

\* self._cache[pair] = (price, timestamp)
StorePrice(cch, pair, price, t) == Put(cch, pair, <<price, t>>)

\* return cached_price, int(cached_time)
CachedPoint(cch, pair) == Put(EmptyMap, pair, <<cch[pair][1], cch[pair][2]>>)

\* get_price up to its first await: the cache check, _ensure_feeds_loaded and
\* the start of the bounded fetch.  via = "wait_for" is the call made by the
\* build-open router under its 12 second bound.
GetPriceCall(c, pair, via) ==
    /\ NoneDone
    /\ call[c].pc = "idle"
    /\ LET base == [IdleCall EXCEPT !.op = "get_price", !.via = via,
                                    !.pairs = <<pair>>]
       IN  IF pair \in DOMAIN cache /\ Fresh(cache[pair], now)
           THEN \* cache hit
                /\ call' = [call EXCEPT ![c] =
                       [base EXCEPT !.pc = "done", !.ret = "value",
                                    !.result = CachedPoint(cache, pair)]]
                /\ UNCHANGED <<now, cache, feedsLoaded>>
           ELSE \E d \in LoadTimes, ok \in BOOLEAN :
                /\ EnsureFeedsLoaded(d, ok)
                /\ IF ok
                   THEN call' = [call EXCEPT ![c] =
                            [base EXCEPT !.pc = "fetching", !.fetch = "pending",
                                         !.loaded = LoadOutcome(ok),
                                         !.started = IF via = "wait_for" THEN now ELSE now',
                                         !.fetchStart = now']]
                   ELSE \* load_pair_feeds raised: caught by except Exception
                        call' = [call EXCEPT ![c] =
                            [base EXCEPT !.pc = "done", !.ret = "none",
                                         !.loaded = LoadOutcome(ok)]]
                /\ UNCHANGED cache
    /\ UNCHANGED <<build, pnl>>

\* the feed answers within the bound: response.parsed (for the one pair asked,
\* at most one item), or an exception
GetPriceRespond(c) ==
    /\ NoneDone
    /\ call[c].pc = "fetching"
    /\ call[c].op = "get_price"
    /\ now - call[c].fetchStart < FETCH_TIMEOUT
    /\ \E parsed \in SeqsUpTo(Prices, 1), raised \in BOOLEAN :
         LET pair == call[c].pairs[1]
         IN  IF raised
             THEN /\ parsed = <<>>
                  /\ call' = Finish(c, "error", <<>>, "none", EmptyMap)
                  /\ UNCHANGED cache
             ELSE IF Len(parsed) > 0
             THEN /\ cache' = StorePrice(cache, pair, parsed[1], now)
                  /\ call' = Finish(c, "answered", parsed, "value",
                                    Put(EmptyMap, pair, <<parsed[1], now>>))
             ELSE /\ call' = Finish(c, "answered", parsed, "none", EmptyMap)
                  /\ UNCHANGED cache
    /\ UNCHANGED <<now, feedsLoaded>>
    /\ UNCHANGED <<build, pnl>>

\* the fallback applying the TTL to the cached value
GetPriceTimeout_FreshOnly(c) ==
    /\ NoneDone
    /\ call[c].pc = "fetching"
    /\ call[c].op = "get_price"
    /\ now - call[c].fetchStart >= FETCH_TIMEOUT
    /\ LET pair == call[c].pairs[1]
       IN  IF pair \in DOMAIN cache /\ Fresh(cache[pair], now)
           THEN call' = Finish(c, "timeout", <<>>, "value", CachedPoint(cache, pair))
           ELSE call' = Finish(c, "timeout", <<>>, "none", EmptyMap)
    /\ UNCHANGED <<now, cache, feedsLoaded>>
    /\ UNCHANGED <<build, pnl>>

\* the fallback re-stamping the cached value it serves
GetPriceTimeout_Restamp(c) ==
    /\ NoneDone
    /\ call[c].pc = "fetching"
    /\ call[c].op = "get_price"
    /\ now - call[c].fetchStart >= FETCH_TIMEOUT
    /\ LET pair == call[c].pairs[1]
       IN  IF pair \in DOMAIN cache
           THEN /\ call' = Finish(c, "timeout", <<>>, "value", CachedPoint(cache, pair))
                /\ cache' = Put(cache, pair, <<cache[pair][1], now>>)
           ELSE /\ call' = Finish(c, "timeout", <<>>, "none", EmptyMap)
                /\ UNCHANGED cache
    /\ UNCHANGED <<now, feedsLoaded>>
    /\ UNCHANGED <<build, pnl>>

\* except asyncio.TimeoutError: the cached value whatever its age, else the
\* raise of line 94, which the enclosing except Exception turns into None
GetPriceTimeout(c) ==
    /\ NoneDone
    /\ call[c].pc = "fetching"
    /\ call[c].op = "get_price"
    /\ now - call[c].fetchStart >= FETCH_TIMEOUT
    /\ LET pair == call[c].pairs[1]
       IN  IF pair \in DOMAIN cache
           THEN call' = Finish(c, "timeout", <<>>, "value", CachedPoint(cache, pair))
           ELSE call' = Finish(c, "timeout", <<>>, "none", EmptyMap)
    /\ UNCHANGED <<now, cache, feedsLoaded>>
    /\ UNCHANGED <<build, pnl>>

\* the router's wait_for(get_price, 12.0) expires: wait_for cancels the
\* get_price task, which cancels the fetch it awaits; the router answers 408
WaitForExpires(c) ==
    /\ NoneDone
    /\ call[c].pc = "fetching"
    /\ call[c].via = "wait_for"
    /\ now - call[c].started >= PRICE_WAIT
    /\ call' = Finish(c, "cancelled", <<>>, "abandoned", EmptyMap)
    /\ UNCHANGED <<now, cache, feedsLoaded>>
    /\ UNCHANGED <<build, pnl>>

----------------------------------------------------------------------------
(* PriceFeedService.get_prices *)

\* for i, item in enumerate(response.parsed): if i < len(pairs):
\*     d[pairs[i]] = (item.converted_price, timestamp)
RECURSIVE AssignFrom(_, _, _, _, _)
AssignFrom(i, d, pairs, parsed, t) ==
    IF i > Len(parsed) THEN d
    ELSE IF i <= Len(pairs)
         THEN AssignFrom(i + 1, Put(d, pairs[i], <<parsed[i], t>>), pairs, parsed, t)
         ELSE AssignFrom(i + 1, d, pairs, parsed, t)

\* results[pair] = (price, timestamp)
BatchResults(pairs, parsed, t) == AssignFrom(1, EmptyMap, pairs, parsed, t)

\* the cache filled against the request list read backwards
BatchCache_Reversed(cch, pairs, parsed, t) ==
    AssignFrom(1, cch, [i \in 1..Len(pairs) |-> pairs[Len(pairs) + 1 - i]], parsed, t)

\* self._cache[pair] = (price, timestamp)
BatchCache(cch, pairs, parsed, t) == AssignFrom(1, cch, pairs, parsed, t)

\* the whole cache returned, not only the requested pairs
CachedResults_WholeCache(cch, pairs) ==
    [s \in DOMAIN cch |-> <<cch[s][1], cch[s][2]>>]

\* for pair in pairs: if pair in self._cache: results[pair] = cached
CachedResults(cch, pairs) ==
    [s \in {pairs[i] : i \in 1..Len(pairs)} \cap DOMAIN cch |-> <<cch[s][1], cch[s][2]>>]

\* get_prices answering from the cache when every requested entry is fresh
GetPricesCall_ServeFresh(c, pairs) ==
    /\ NoneDone
    /\ call[c].pc = "idle"
    /\ LET base == [IdleCall EXCEPT !.op = "get_prices", !.pairs = pairs]
       IN  IF pairs = <<>>
           THEN /\ call' = [call EXCEPT ![c] =
                       [base EXCEPT !.pc = "done", !.ret = "value"]]
                /\ UNCHANGED <<now, cache, feedsLoaded>>
           ELSE IF \A i \in 1..Len(pairs) :
                     pairs[i] \in DOMAIN cache /\ Fresh(cache[pairs[i]], now)
           THEN /\ call' = [call EXCEPT ![c] =
                       [base EXCEPT !.pc = "done", !.ret = "value",
                                    !.result = CachedResults(cache, pairs)]]
                /\ UNCHANGED <<now, cache, feedsLoaded>>
           ELSE \E d \in LoadTimes, ok \in BOOLEAN :
                /\ EnsureFeedsLoaded(d, ok)
                /\ IF ok
                   THEN call' = [call EXCEPT ![c] =
                            [base EXCEPT !.pc = "fetching", !.fetch = "pending",
                                         !.loaded = LoadOutcome(ok),
                                         !.started = now', !.fetchStart = now']]
                   ELSE call' = [call EXCEPT ![c] =
                            [base EXCEPT !.pc = "done", !.ret = "value",
                                         !.loaded = LoadOutcome(ok)]]
                /\ UNCHANGED cache
    /\ UNCHANGED <<build, pnl>>

\* get_prices up to its first await; no TTL check is made
GetPricesCall(c, pairs) ==
    /\ NoneDone
    /\ call[c].pc = "idle"
    /\ LET base == [IdleCall EXCEPT !.op = "get_prices", !.pairs = pairs]
       IN  IF pairs = <<>>
           THEN /\ call' = [call EXCEPT ![c] =
                       [base EXCEPT !.pc = "done", !.ret = "value"]]
                /\ UNCHANGED <<now, cache, feedsLoaded>>
           ELSE \E d \in LoadTimes, ok \in BOOLEAN :
                /\ EnsureFeedsLoaded(d, ok)
                /\ IF ok
                   THEN call' = [call EXCEPT ![c] =
                            [base EXCEPT !.pc = "fetching", !.fetch = "pending",
                                         !.loaded = LoadOutcome(ok),
                                         !.started = now', !.fetchStart = now']]
                   ELSE \* caught by except Exception: the empty results
                        call' = [call EXCEPT ![c] =
                            [base EXCEPT !.pc = "done", !.ret = "value",
                                         !.loaded = LoadOutcome(ok)]]
                /\ UNCHANGED cache
    /\ UNCHANGED <<build, pnl>>

GetPricesRespond(c) ==
    /\ NoneDone
    /\ call[c].pc = "fetching"
    /\ call[c].op = "get_prices"
    /\ now - call[c].fetchStart < FETCH_TIMEOUT
    /\ \E parsed \in ParsedLists, raised \in BOOLEAN :
         IF raised
         THEN /\ parsed = <<>>
              /\ call' = Finish(c, "error", <<>>, "value", EmptyMap)
              /\ UNCHANGED cache
         ELSE IF Len(parsed) > 0
         THEN /\ cache' = BatchCache(cache, call[c].pairs, parsed, now)
              /\ call' = Finish(c, "answered", parsed, "value",
                                BatchResults(call[c].pairs, parsed, now))
         ELSE /\ call' = Finish(c, "answered", parsed, "value", EmptyMap)
              /\ UNCHANGED cache
    /\ UNCHANGED <<now, feedsLoaded>>
    /\ UNCHANGED <<build, pnl>>

GetPricesTimeout(c) ==
    /\ NoneDone
    /\ call[c].pc = "fetching"
    /\ call[c].op = "get_prices"
    /\ now - call[c].fetchStart >= FETCH_TIMEOUT
    /\ call' = Finish(c, "timeout", <<>>, "value", CachedResults(cache, call[c].pairs))
    /\ UNCHANGED <<now, cache, feedsLoaded>>
    /\ UNCHANGED <<build, pnl>>

----------------------------------------------------------------------------
\* the caller takes the result; the slot is free for the next request
Return(c) ==
    /\ call[c].pc = "done"
    /\ call' = [call EXCEPT ![c] = IdleCall]
    /\ UNCHANGED <<now, cache, feedsLoaded>>
    /\ UNCHANGED <<build, pnl>>

\* the instants at which a pending timer is due or a cache entry turns stale
Deadlines ==
    {call[c].fetchStart + FETCH_TIMEOUT : c \in {x \in Callers : call[x].pc = "fetching"}}
    \cup {call[c].started + PRICE_WAIT :
            c \in {x \in Callers : call[x].pc = "fetching" /\ call[x].via = "wait_for"}}
    \cup {cache[s][2] + CACHE_TTL : s \in DOMAIN cache}

\* time passes, up to the next such instant; a timer that is due fires first
Tick ==
    /\ NoneDone
    /\ \E t \in (now + 1)..MaxTime :
         /\ t \in Deadlines
         /\ \A u \in Deadlines : u <= now \/ u >= t
         /\ now' = t
    /\ \A c \in Callers :
         call[c].pc = "fetching" =>
           /\ now - call[c].fetchStart < FETCH_TIMEOUT
           /\ call[c].via = "wait_for" => now - call[c].started < PRICE_WAIT
    /\ UNCHANGED <<cache, feedsLoaded, call>>
    /\ UNCHANGED <<build, pnl>>

\* the price cache under concurrent callers
Next ==
    \/ \E c \in Callers, pair \in Symbols, via \in {"direct", "wait_for"} :
         GetPriceCall(c, pair, via)
    \/ \E c \in Callers : GetPriceRespond(c)
    \/ \E c \in Callers : GetPriceTimeout(c)
    \/ \E c \in Callers : WaitForExpires(c)
    \/ \E c \in Callers, pairs \in PairLists : GetPricesCall(c, pairs)
    \/ \E c \in Callers : GetPricesRespond(c)
    \/ \E c \in Callers : GetPricesTimeout(c)
    \/ \E c \in Callers : Return(c)
    \/ Tick

Spec == Init /\ [][Next]_vars

----------------------------------------------------------------------------
(* AvantisService: the delegated open-trade and close-trade builders *)

\* self.settings.chain_id
CHAIN_ID == 8453
\* execution_fee = 1000000000000000 (wei), here in gwei
DEFAULT_FEE_GWEI == 1000000
\* asyncio.wait_for(build_trade_open_tx(...), timeout=10.0)
SDK_BUILD_TIMEOUT == 10

\* Trading.address
TRADING == "Trading"

\* an address is an account in one of its spellings; "malformed" is a string
\* that is no address
Traders ==
    {[id |-> "alice", form |-> "lower"], [id |-> "alice", form |-> "checksum"],
     [id |-> "bob", form |-> "malformed"]}

\* the address passed on as given
ToChecksum_AsGiven(a) == a

\* eth_utils.to_checksum_address: the EIP-55 spelling of a well-formed address
ToChecksum(a) == [id |-> a.id, form |-> "checksum"]

\* to_checksum_address raises ValueError on anything else
IsAddress(a) == a.form \in {"lower", "checksum"}

\* a Python float as the exact fraction num / den with den > 0
Rat(n, d) == IF d < 0 THEN [num |-> -n, den |-> -d] ELSE [num |-> n, den |-> d]
RatEq(a, b) == a.num * b.den = b.num * a.den
RatLess(a, b) == a.num * b.den < b.num * a.den

\* a Python int leverage as n * 2^pow2; pow2 > 0 stands for a leverage beyond
\* 32 bits
Lev(n) == [n |-> n, pow2 |-> 0]
Leverages == {Lev(-100), Lev(0), Lev(1), Lev(75), Lev(100), [n |-> 1, pow2 |-> 54]}

\* sys.float_info.mant_dig of the binary64 floats the arithmetic runs in
FLOAT_MANT_DIG == 53

\* 1.0 / leverage is at most 2^-54: 1 + target_profit_pct and
\* 1 - target_profit_pct both round to exactly 1.0
Absorbed(leverage) == leverage.n # 0 /\ leverage.pow2 > FLOAT_MANT_DIG

\* the take-profit moved to the wrong side of the entry price
CalculateTakeProfit_Swapped(entry_price, is_long, leverage) ==
    IF Absorbed(leverage) THEN Rat(entry_price, 1)
    ELSE IF is_long
    THEN Rat(entry_price * (leverage.n - 1), leverage.n)
    ELSE Rat(entry_price * (leverage.n + 1), leverage.n)

\* the take-profit left at the entry price
CalculateTakeProfit_NoMove(entry_price, is_long, leverage) == Rat(entry_price, 1)

\* calculate_take_profit for leverage # 0 (1.0 / 0 raises ZeroDivisionError):
\* entry_price * (1 + 1.0 / leverage) for a long,
\* entry_price * (1 - 1.0 / leverage) for a short
CalculateTakeProfit(entry_price, is_long, leverage) ==
    IF Absorbed(leverage) THEN Rat(entry_price, 1)
    ELSE IF is_long
    THEN Rat(entry_price * (leverage.n + 1), leverage.n)
    ELSE Rat(entry_price * (leverage.n - 1), leverage.n)

\* PRICE_DECIMALS = 10**8
PRICE_DECIMALS == 100000000

\* int(x * PRICE_DECIMALS) for x >= 0, kept as the pair (units, frac8) that
\* stands for units * 10^8 + frac8, a number beyond 32 bits for prices above 21;
\* the eight decimals are obtained four at a time
ScalePrice(x) ==
    LET r0 == x.num % x.den
        hi == (r0 * 10000) \div x.den
        r1 == (r0 * 10000) % x.den
        lo == (r1 * 10000) \div x.den
    IN  [units |-> x.num \div x.den, frac8 |-> hi * (PRICE_DECIMALS \div 10000) + lo]

\* COLLATERAL_DECIMALS = 10**6
COLLATERAL_DECIMALS == 1000000

\* int(x * COLLATERAL_DECIMALS) for x >= 0: the fraction is cut off
ScaleCollateral(x) == (x.num * COLLATERAL_DECIMALS) \div x.den

\* entry prices handed to the builder
OpenPrices == {1, 3, 60000}

\* USDC amounts handed to the builders: 5 and 0.0000019
Collaterals == {Rat(5, 1), Rat(19, 10000000)}

OpenRequests ==
    [trader : Traders, pair_index : {0, 1}, leverage : Leverages, is_long : BOOLEAN,
     open_price : OpenPrices, collateral : Collaterals]

CloseRequests ==
    [trader : Traders, pair_index : {-1, 0}, trade_index : {-1, 0},
     collateral_to_close : {Rat(0, 1)} \cup Collaterals]

\* execution fees the exchange may report, in gwei
Fees == {0, 350}

\* the value field of the SDK's transaction dict: an int, a hex string, a
\* decimal string, or absent
SdkValues == [repr : {"int", "hex", "dec"}, n : Fees] \cup {[repr |-> "absent", n |-> 0]}

\* inner_tx.get("value", 0), then int(v, 16) for "0x..." strings, int(v) else
ParseFee(v) == IF v.repr = "absent" THEN 0 ELSE v.n

\* Trading.functions.openTrade(trade_input_tuple, MARKET_ZERO_FEE, 1); layout
\* lists the members of trade_input_tuple in their order
ManualOpenTrade(trader, req) ==
    [fn |-> "openTrade", by |-> "manual",
     layout |-> <<"trader", "open_price", "pair_index", "collateral", "is_long",
                  "leverage", "index", "tp", "sl">>,
     trader |-> trader,
     open_price |-> ScalePrice(Rat(req.open_price, 1)),
     pair_index |-> req.pair_index,
     collateral |-> ScaleCollateral(req.collateral),
     is_long |-> req.is_long,
     leverage |-> req.leverage, index |-> 0,
     tp |-> ScalePrice(CalculateTakeProfit(req.open_price, req.is_long, req.leverage)),
     sl |-> 0,
     order_type |-> "MARKET_ZERO_FEE", slippage |-> 1]

\* the calldata of the transaction the SDK builds for the same TradeInput
SdkOpenTrade(trader, req) ==
    [fn |-> "openTrade", by |-> "sdk", trader |-> trader,
     open_price |-> Rat(req.open_price, 1),
     pair_index |-> req.pair_index, collateral |-> req.collateral,
     is_long |-> req.is_long,
     leverage |-> req.leverage, index |-> 0,
     tp |-> CalculateTakeProfit(req.open_price, req.is_long, req.leverage),
     sl |-> 0,
     order_type |-> "MARKET_ZERO_FEE", slippage |-> 1]

\* Trading.functions.closeTradeMarket(pair_index, trade_index, collateral_usdc)
CloseTradeMarket(req) ==
    [fn |-> "closeTradeMarket", pair_index |-> req.pair_index,
     trade_index |-> req.trade_index,
     collateral_usdc |-> (req.collateral_to_close.num * 1000000)
                             \div req.collateral_to_close.den]

\* Trading.functions.delegatedAction(trader, inner_calldata)
DelegatedAction(trader, inner) ==
    [fn |-> "delegatedAction", trader |-> trader, inner |-> inner]

\* UnsignedTx(to=trading_address, data=delegate_calldata, value=hex(fee), ...)
UnsignedTx(to, data, fee) ==
    [to |-> to, data |-> data, value |-> fee, chain_id |-> CHAIN_ID]

Raise(err) == [build EXCEPT !.pc = "done", !.ret = "raise", !.err = err]

Deliver(path, fee, tx) ==
    [build EXCEPT !.pc = "done", !.ret = "tx", !.path = path, !.fee = fee, !.tx = tx]

\* build_open_trade_tx_delegate up to the await of the SDK build
OpenCall(req) ==
    /\ build.pc = "idle"
    /\ IF ~IsAddress(req.trader)
       THEN build' = [IdleBuild EXCEPT !.pc = "done", !.op = "open", !.req = req,
                                       !.ret = "raise", !.err = "ValueError"]
       ELSE IF req.leverage.n = 0
       THEN \* calculate_take_profit: 1.0 / leverage
            build' = [IdleBuild EXCEPT !.pc = "done", !.op = "open", !.req = req,
                                       !.ret = "raise", !.err = "ZeroDivisionError"]
       ELSE build' = [IdleBuild EXCEPT !.pc = "sdkBuild", !.op = "open", !.req = req,
                                       !.bounded = TRUE, !.started = now]
    /\ UNCHANGED <<priceVars, pnl>>

\* build_trade_open_tx returned inner_tx within the bound
OpenSdkBuilt ==
    /\ build.pc = "sdkBuild"
    /\ now - build.started < SDK_BUILD_TIMEOUT
    /\ \E hasData \in BOOLEAN, value \in SdkValues, hasTrading \in BOOLEAN :
         IF hasData /\ hasTrading
         THEN LET trader == ToChecksum(build.req.trader)
              IN  build' = [Deliver("sdk", ParseFee(value),
                               UnsignedTx(TRADING,
                                   DelegatedAction(trader, SdkOpenTrade(trader, build.req)),
                                   ParseFee(value)))
                            EXCEPT !.feeSrc = IF value.repr = "absent"
                                              THEN "absent" ELSE "sdk"]
         ELSE \* encoding None, or contracts.get("Trading") is None
              build' = Raise(IF hasData THEN "AttributeError" ELSE "TypeError")
    /\ UNCHANGED <<priceVars, pnl>>

\* any failure of the SDK build answered with the manual encoding
OpenSdkRaised_Fallback ==
    /\ build.pc = "sdkBuild"
    /\ now - build.started < SDK_BUILD_TIMEOUT
    /\ build' = [build EXCEPT !.pc = "feeRead", !.bounded = FALSE, !.path = "manual"]
    /\ UNCHANGED <<priceVars, pnl>>

\* build_trade_open_tx raised: not a timeout, nothing catches it
OpenSdkRaised ==
    /\ build.pc = "sdkBuild"
    /\ now - build.started < SDK_BUILD_TIMEOUT
    /\ build' = Raise("SdkError")
    /\ UNCHANGED <<priceVars, pnl>>

\* the 10 second bound expired: the fee is read for the manual encoding
OpenSdkTimeout ==
    /\ build.pc = "sdkBuild"
    /\ now - build.started >= SDK_BUILD_TIMEOUT
    /\ build' = [build EXCEPT !.pc = "feeRead", !.bounded = FALSE, !.path = "manual"]
    /\ UNCHANGED <<priceVars, pnl>>

\* time passes while build_trade_open_tx is awaited, up to the expiry of its
\* bound
BuildTick ==
    /\ build.pc = "sdkBuild"
    /\ now - build.started < SDK_BUILD_TIMEOUT
    /\ build.started + SDK_BUILD_TIMEOUT <= MaxTime
    /\ now' = build.started + SDK_BUILD_TIMEOUT
    /\ UNCHANGED <<cache, feedsLoaded, call, build, pnl>>

\* get_trade_execution_fee answered or raised; the manual encoding follows
OpenFeeRead ==
    /\ build.pc = "feeRead"
    /\ build.op = "open"
    /\ \E raised \in BOOLEAN, fee \in Fees, hasTrading \in BOOLEAN :
         LET fee_used == IF raised THEN DEFAULT_FEE_GWEI ELSE fee
             trader == ToChecksum(build.req.trader)
         IN  /\ raised => fee = 0
             /\ IF hasTrading
                THEN build' = [Deliver("manual", fee_used,
                                  UnsignedTx(TRADING,
                                      DelegatedAction(trader, ManualOpenTrade(trader, build.req)),
                                      fee_used))
                               EXCEPT !.feeSrc = IF raised THEN "default" ELSE "oracle"]
                ELSE build' = Raise("ValueError")
    /\ UNCHANGED <<priceVars, pnl>>

\* the close builder without the check of collateral_to_close
CloseCall_NoAmountCheck(req) ==
    /\ build.pc = "idle"
    /\ IF \/ ~IsAddress(req.trader)
          \/ req.pair_index < 0
          \/ req.trade_index < 0
       THEN build' = [IdleBuild EXCEPT !.pc = "done", !.op = "close", !.req = req,
                                       !.ret = "raise", !.err = "ValueError"]
       ELSE build' = [IdleBuild EXCEPT !.pc = "feeRead", !.op = "close", !.req = req,
                                       !.bounded = FALSE, !.path = "manual"]
    /\ UNCHANGED <<priceVars, pnl>>

\* build_close_trade_tx_delegate up to the await of the fee read
CloseCall(req) ==
    /\ build.pc = "idle"
    /\ IF \/ ~IsAddress(req.trader)
          \/ req.pair_index < 0
          \/ req.trade_index < 0
          \/ req.collateral_to_close.num <= 0
       THEN build' = [IdleBuild EXCEPT !.pc = "done", !.op = "close", !.req = req,
                                       !.ret = "raise", !.err = "ValueError"]
       ELSE build' = [IdleBuild EXCEPT !.pc = "feeRead", !.op = "close", !.req = req,
                                       !.bounded = FALSE, !.path = "manual"]
    /\ UNCHANGED <<priceVars, pnl>>

\* get_trade_execution_fee answered or raised; closeTradeMarket is encoded
CloseFeeRead ==
    /\ build.pc = "feeRead"
    /\ build.op = "close"
    /\ \E raised \in BOOLEAN, fee \in Fees, hasTrading \in BOOLEAN :
         LET trader == ToChecksum(build.req.trader)
         IN  /\ raised => fee = 0 /\ hasTrading
             /\ IF raised
                THEN build' = Raise("FeeError")
                ELSE IF hasTrading
                THEN build' = [Deliver("manual", fee,
                                  UnsignedTx(TRADING,
                                      DelegatedAction(trader, CloseTradeMarket(build.req)),
                                      fee))
                               EXCEPT !.feeSrc = "oracle"]
                ELSE build' = Raise("ValueError")
    /\ UNCHANGED <<priceVars, pnl>>

\* requests of the TP/SL update endpoint
TpslRequests == [trader : Traders, pair_index : {0}, trade_index : {0}]

\* calldata as a key of the SDK's transaction dict: present, or no such key
SdkData == [fn |-> "sdk"]
AbsentData == [fn |-> "absent"]
\* the empty string as calldata
NoData == [fn |-> ""]

\* the transaction dict an SDK build returns: each key present or absent
SdkTxRecords ==
    [to : {TRADING, "absent"}, data : {SdkData, AbsentData}, value : SdkValues]

\* _extract_tx_data: tx.get("to", ""), tx.get("data", ""), the value or "0x0"
ExtractTxData(tx) ==
    [to |-> IF tx.to = "absent" THEN "" ELSE tx.to,
     data |-> IF tx.data = AbsentData THEN NoData ELSE tx.data,
     value |-> ParseFee(tx.value),
     chain_id |-> CHAIN_ID]

\* build_set_delegate_tx up to the await of the SDK build
SetDelegateCall(addr) ==
    /\ build.pc = "idle"
    /\ IF ~IsAddress(addr)
       THEN build' = [IdleBuild EXCEPT !.pc = "done", !.op = "set_delegate",
                                       !.req = [trader |-> addr],
                                       !.ret = "raise", !.err = "ValueError"]
       ELSE build' = [IdleBuild EXCEPT !.pc = "sdkTx", !.op = "set_delegate",
                                       !.req = [trader |-> ToChecksum(addr)]]
    /\ UNCHANGED <<priceVars, pnl>>

\* build_remove_delegate_tx up to the await of the SDK build
RemoveDelegateCall ==
    /\ build.pc = "idle"
    /\ build' = [IdleBuild EXCEPT !.pc = "sdkTx", !.op = "remove_delegate"]
    /\ UNCHANGED <<priceVars, pnl>>

\* build_update_tpsl_tx_delegate up to the await of the SDK build
UpdateTpslCall(req) ==
    /\ build.pc = "idle"
    /\ IF ~IsAddress(req.trader)
       THEN build' = [IdleBuild EXCEPT !.pc = "done", !.op = "update_tpsl", !.req = req,
                                       !.ret = "raise", !.err = "ValueError"]
       ELSE build' = [IdleBuild EXCEPT !.pc = "sdkTx", !.op = "update_tpsl", !.req = req]
    /\ UNCHANGED <<priceVars, pnl>>

\* the SDK build answered: return self._extract_tx_data(tx)
SdkTxBuilt ==
    /\ build.pc = "sdkTx"
    /\ \E tx \in SdkTxRecords :
         build' = [Deliver("sdk", ParseFee(tx.value), ExtractTxData(tx))
                   EXCEPT !.feeSrc = IF tx.value.repr = "absent"
                                     THEN "absent" ELSE "sdk"]
    /\ UNCHANGED <<priceVars, pnl>>

\* the SDK build raised: nothing in the builder catches it
SdkTxRaised ==
    /\ build.pc = "sdkTx"
    /\ build' = Raise("SdkError")
    /\ UNCHANGED <<priceVars, pnl>>

----------------------------------------------------------------------------
(* AvantisService.build_usdc_approval_tx: strings are sequences of characters *)

Rep(ch, n) == [i \in 1..n |-> ch]

\* APPROVE_SELECTOR = "0x095ea7b3"
APPROVE_SELECTOR == <<"0", "x", "0", "9", "5", "e", "a", "7", "b", "3">>
\* MAX_UINT256 = "ff...ff", 64 hex digits
MAX_UINT256 == Rep("f", 64)
\* USDC_ADDRESS
USDC_ADDRESS == "USDC"
\* the width of zfill(64): one 32-byte word in hex digits
WORD_HEX == 64

HexDigits == {"0", "1", "2", "3", "4", "5", "6", "7", "8", "9",
              "a", "b", "c", "d", "e", "f"}

\* str.lower() on the characters that occur in the spenders
LowerChar(ch) ==
    CASE ch = "A" -> "a" [] ch = "B" -> "b" [] ch = "C" -> "c"
      [] ch = "D" -> "d" [] ch = "E" -> "e" [] ch = "F" -> "f"
      [] ch = "X" -> "x" [] ch = "Z" -> "z" [] OTHER -> ch

Lower(str) == [i \in 1..Len(str) |-> LowerChar(str[i])]

\* str.replace("0x", ""): every occurrence, scanning from the left
RECURSIVE Remove0x(_)
Remove0x(str) ==
    IF Len(str) < 2 THEN str
    ELSE IF str[1] = "0" /\ str[2] = "x"
    THEN Remove0x(SubSeq(str, 3, Len(str)))
    ELSE <<str[1]>> \o Remove0x(Tail(str))

\* zfill without the padding
ZFill_NoPad(str, width) == str

\* str.zfill(width): zeros on the left up to width, after a leading sign;
\* a longer string is returned as it is
ZFill(str, width) ==
    IF Len(str) >= width THEN str
    ELSE IF Len(str) > 0 /\ str[1] \in {"+", "-"}
    THEN <<str[1]>> \o Rep("0", width - Len(str)) \o Tail(str)
    ELSE Rep("0", width - Len(str)) \o str

\* spender.lower().replace("0x", "").zfill(64)
SpenderPadded(spender) == ZFill(Remove0x(Lower(spender)), WORD_HEX)

\* f"{APPROVE_SELECTOR}{spender_padded}{MAX_UINT256}"
ApproveCalldata(spender) ==
    [fn |-> "approve", hex |-> APPROVE_SELECTOR \o SpenderPadded(spender) \o MAX_UINT256]

\* eth_utils.is_hex_address, the test behind to_checksum_address: 40 hex
\* digits after an optional 0x / 0X prefix
IsHexAddress(str) ==
    LET low == Lower(str)
        body == IF Len(low) >= 2 /\ low[1] = "0" /\ low[2] = "x"
                THEN SubSeq(low, 3, Len(low)) ELSE low
    IN  /\ Len(body) = 40
        /\ \A i \in 1..Len(body) : body[i] \in HexDigits

\* spenders: three well-formed addresses (mixed case, lower case without
\* prefix, upper-case prefix) and four strings that are no address (too long,
\* too short, not hexadecimal, empty)
Spenders ==
    { <<"0", "x">> \o Rep("A", 20) \o Rep("b", 20),
      Rep("1", 39) \o <<"c">>,
      <<"0", "X">> \o Rep("D", 40),
      <<"0", "x">> \o Rep("f", 66),
      <<"0", "x", "a", "b", "c", "d">>,
      <<"0", "x">> \o Rep("Z", 40),
      <<>> }

\* build_usdc_approval_tx: synchronous, nothing in it raises
ApprovalCall(spender) ==
    /\ build.pc = "idle"
    /\ build' = [IdleBuild EXCEPT !.pc = "done", !.op = "approve",
                                  !.req = [spender |-> spender],
                                  !.ret = "tx",
                                  !.tx = [to |-> USDC_ADDRESS,
                                          data |-> ApproveCalldata(spender),
                                          value |-> 0,
                                          chain_id |-> CHAIN_ID]]
    /\ UNCHANGED <<priceVars, pnl>>

\* ---- the debug endpoint POST /debug/encode-trade (routers/trades.py) ----

\* TRADING_CONTRACT of the endpoint
TRADING_CONTRACT == "0x44914408af82bC9983bbb330e3578E1105e11d4e"

\* backend_execution_fee and guide_execution_fee = int(0.00035 * 10**18), in gwei
BACKEND_FEE_GWEI == 100000
GUIDE_FEE_GWEI == 350000

\* OpenTradeRequest as the endpoint reads it: leverage is validated to
\* 75..250 and collateral to > 0 before the handler runs
DebugRequests ==
    [trader : Traders, pair_index : {0}, leverage : {75}, is_long : BOOLEAN,
     collateral : Collaterals]

\* prices get_price may answer with, and values of int(time.time())
DebugPrices == {1, 3, 60000}
Timestamps == {1, 2}

\* int(x * 10**10) for x >= 0, as (units, frac8, frac2) standing for
\* units * 10^10 + frac8 * 100 + frac2
ScaleGuide(x) ==
    LET r0 == x.num % x.den
        r1 == (r0 * 10000) % x.den
        r2 == (r1 * 10000) % x.den
    IN  [units |-> ScalePrice(x).units, frac8 |-> ScalePrice(x).frac8,
         frac2 |-> (r2 * 100) \div x.den]

\* tp_price = current_price * 5 for a long, current_price * 0.2 for a short
DebugTakeProfit(current_price, is_long) ==
    IF is_long THEN Rat(current_price * 5, 1) ELSE Rat(current_price, 5)

\* build_trade_tuple and encode_open_trade: the struct of 11 members, order
\* type 3 (MARKET_ZERO_FEE) and the slippage; layout lists the members of the
\* struct in their order
EncodeOpenTrade(trader, req, price, tp, leverage, position_size, slippage, timestamp) ==
    [fn |-> "openTrade", by |-> "debug",
     layout |-> <<"trader", "pair_index", "index", "initial_pos_token",
                  "position_size", "open_price", "is_long", "leverage", "tp",
                  "sl", "timestamp">>,
     trader |-> trader, pair_index |-> req.pair_index, index |-> 0,
     initial_pos_token |-> 0, position_size |-> position_size,
     open_price |-> price, is_long |-> req.is_long, leverage |-> leverage,
     tp |-> tp, sl |-> 0, timestamp |-> timestamp,
     order_type |-> "MARKET_ZERO_FEE", slippage |-> slippage]

\* approach 1 of the endpoint: prices by 10**8, raw leverage, position size
\* int(collateral * leverage * 10**6), slippage 1
BackendEncoding(trader, req, current_price, timestamp) ==
    [to |-> TRADING_CONTRACT,
     data |-> DelegatedAction(trader,
                 EncodeOpenTrade(trader, req,
                     ScalePrice(Rat(current_price, 1)),
                     ScalePrice(DebugTakeProfit(current_price, req.is_long)),
                     req.leverage,
                     (req.collateral.num * req.leverage * 1000000)
                         \div req.collateral.den,
                     1, timestamp)),
     value |-> BACKEND_FEE_GWEI, chain_id |-> 8453]

\* approach 2 of the endpoint: prices, leverage and slippage by 10**10,
\* position size int(collateral * 10**6)
GuideEncoding(trader, req, current_price, timestamp) ==
    [to |-> TRADING_CONTRACT,
     data |-> DelegatedAction(trader,
                 EncodeOpenTrade(trader, req,
                     ScaleGuide(Rat(current_price, 1)),
                     ScaleGuide(DebugTakeProfit(current_price, req.is_long)),
                     ScaleGuide(Rat(req.leverage, 1)),
                     (req.collateral.num * 1000000) \div req.collateral.den,
                     ScaleGuide(Rat(1, 1)), timestamp)),
     value |-> GUIDE_FEE_GWEI, chain_id |-> 8453]

\* debug_encode_trade up to the await of get_price under its 12 second bound
DebugEncodeCall(req) ==
    /\ build.pc = "idle"
    /\ build' = [IdleBuild EXCEPT !.pc = "debugPrice", !.op = "debug", !.req = req,
                                  !.bounded = TRUE]
    /\ UNCHANGED <<priceVars, pnl>>

\* get_price ended: HTTP 408 on the timeout and 400 on None (HTTPException is
\* re-raised); any other exception, of get_price or of to_checksum_address,
\* is answered with a dict holding the error; else both encodings are returned
DebugPriceRead ==
    /\ build.pc = "debugPrice"
    /\ \E outcome \in {"timeout", "none", "raise", "price"},
          current_price \in DebugPrices, timestamp \in Timestamps :
         /\ outcome # "price" => (current_price = 1 /\ timestamp = 1)
         /\ IF outcome = "timeout" THEN build' = Raise("HTTP408")
            ELSE IF outcome = "none" THEN build' = Raise("HTTP400")
            ELSE IF outcome = "raise" \/ ~IsAddress(build.req.trader)
            THEN build' = [build EXCEPT !.pc = "done", !.ret = "error",
                                        !.err = IF outcome = "raise"
                                                THEN "FeedError" ELSE "ValueError"]
            ELSE LET trader == ToChecksum(build.req.trader)
                 IN  build' =
                       [build EXCEPT
                          !.pc = "done", !.ret = "dict", !.path = "manual",
                          !.tx = [backend |-> BackendEncoding(trader, build.req,
                                                  current_price, timestamp),
                                  guide |-> GuideEncoding(trader, build.req,
                                                current_price, timestamp)]]
    /\ UNCHANGED <<priceVars, pnl>>

\* build_open_trade_tx once its awaited get_price has ended: HTTP 408 when the
\* 12 second bound expired, 400 when get_price returned None, 500 when it
\* raised, and 0 (no answer yet: the builder is called) when it gave a price
PriceStageStatus(r) ==
    IF r.ret = "abandoned" THEN 408
    ELSE IF r.ret = "none" THEN 400
    ELSE IF r.ret = "raise" THEN 500
    ELSE 0

\* build_open_trade_tx once the builder has ended: 200 with the transaction,
\* 500 for whatever it raised
BuildStageStatus(b) == IF b.ret = "tx" THEN 200 ELSE 500

\* the router takes the transaction or the error
BuildReturn ==
    /\ build.pc = "done"
    /\ build' = IdleBuild
    /\ UNCHANGED <<priceVars, pnl>>

BuildNext ==
    \/ \E req \in OpenRequests : OpenCall(req)
    \/ OpenSdkBuilt
    \/ OpenSdkRaised
    \/ OpenSdkTimeout
    \/ BuildTick
    \/ OpenFeeRead
    \/ \E req \in CloseRequests : CloseCall(req)
    \/ CloseFeeRead
    \/ \E addr \in Traders : SetDelegateCall(addr)
    \/ RemoveDelegateCall
    \/ \E req \in TpslRequests : UpdateTpslCall(req)
    \/ SdkTxBuilt
    \/ SdkTxRaised
    \/ \E spender \in Spenders : ApprovalCall(spender)
    \/ \E req \in DebugRequests : DebugEncodeCall(req)
    \/ DebugPriceRead
    \/ BuildReturn

\* the transaction builders
BuildSpec == Init /\ [][BuildNext]_vars

----------------------------------------------------------------------------
(* AvantisService: PnL of open positions *)

RECURSIVE Gcd(_, _)
Gcd(a, b) == IF b = 0 THEN a ELSE Gcd(b, a % b)

Abs(x) == IF x < 0 THEN -x ELSE x

\* the same fraction in lowest terms
Norm(r) ==
    LET g == Gcd(Abs(r.num), r.den)
    IN  [num |-> r.num \div g, den |-> r.den \div g]

\* float arithmetic on exact fractions; RatDiv is applied to b # 0 only
RatSub(a, b) == Norm(Rat(a.num * b.den - b.num * a.den, a.den * b.den))
RatMul(a, b) == Norm(Rat(a.num * b.num, a.den * b.den))
RatDiv(a, b) == Norm(Rat(a.num * b.den, a.den * b.num))
RatNeg(a) == [num |-> -a.num, den |-> a.den]

\* open trades as the SDK reports them
PnlTrades ==
    [pair_index : {0, 1}, is_long : BOOLEAN, open_price : {0, 3000, 20000, 60000},
     collateral : {10, 50}, leverage : {75}]

\* current prices handed to calculate_pnl
CurrentPrices == {1, 2, 3300}
\* margin_fee
MarginFees == {0, 1}
\* position_size_usdc: None (the default), or a size given by the caller
PositionSizes == {[given |-> FALSE, v |-> 0], [given |-> TRUE, v |-> 1000]}

\* calculate_pnl with the two directions exchanged
CalculatePnl_SameSign(trade, current_price, position_size_usdc, margin_fee) ==
    LET size == IF position_size_usdc.given THEN position_size_usdc.v
                ELSE trade.collateral * trade.leverage
        open == Rat(trade.open_price, 1)
        cur == Rat(current_price, 1)
        price_change_pct == RatDiv(RatSub(cur, open), open)
        gross_pnl == RatMul(Rat(size, 1), price_change_pct)
        net_pnl == RatSub(gross_pnl, Rat(margin_fee, 1))
    IN  <<net_pnl, RatMul(RatDiv(net_pnl, Rat(trade.collateral, 1)), Rat(100, 1))>>

\* calculate_pnl with the fee added
CalculatePnl_FeeAdded(trade, current_price, position_size_usdc, margin_fee) ==
    LET size == IF position_size_usdc.given THEN position_size_usdc.v
                ELSE trade.collateral * trade.leverage
        open == Rat(trade.open_price, 1)
        cur == Rat(current_price, 1)
        price_change_pct == IF trade.is_long
                            THEN RatDiv(RatSub(cur, open), open)
                            ELSE RatDiv(RatSub(open, cur), open)
        gross_pnl == RatMul(Rat(size, 1), price_change_pct)
        net_pnl == RatSub(gross_pnl, Rat(-margin_fee, 1))
    IN  <<net_pnl, RatMul(RatDiv(net_pnl, Rat(trade.collateral, 1)), Rat(100, 1))>>

\* calculate_pnl for trade.open_price # 0: (net_pnl, pnl_percentage)
CalculatePnl(trade, current_price, position_size_usdc, margin_fee) ==
    LET size == IF position_size_usdc.given THEN position_size_usdc.v
                ELSE trade.collateral * trade.leverage
        open == Rat(trade.open_price, 1)
        cur == Rat(current_price, 1)
        price_change_pct == IF trade.is_long
                            THEN RatDiv(RatSub(cur, open), open)
                            ELSE RatDiv(RatSub(open, cur), open)
        gross_pnl == RatMul(Rat(size, 1), price_change_pct)
        net_pnl == RatSub(gross_pnl, Rat(margin_fee, 1))
    IN  <<net_pnl, RatMul(RatDiv(net_pnl, Rat(trade.collateral, 1)), Rat(100, 1))>>

\* calculate_pnl: synchronous; the division by trade.open_price raises
\* ZeroDivisionError when it is 0
CalculatePnlCall(trade, current_price, position_size_usdc, margin_fee) ==
    /\ pnl.pc = "idle"
    /\ LET args == <<trade, current_price, position_size_usdc, margin_fee>>
       IN  IF trade.open_price = 0
           THEN pnl' = [IdlePnl EXCEPT !.pc = "done", !.op = "calculate_pnl",
                                       !.args = args, !.ret = "raise",
                                       !.err = "ZeroDivisionError"]
           ELSE pnl' = [IdlePnl EXCEPT !.pc = "done", !.op = "calculate_pnl",
                                       !.args = args, !.ret = "value",
                                       !.out = CalculatePnl(trade, current_price,
                                                   position_size_usdc, margin_fee)]
    /\ UNCHANGED <<priceVars, build>>

\* the trades an account may hold: at most MaxTrades of them
MaxTrades == 2
ReportTrades == {t \in PnlTrades : t.collateral = 10}
TradeLists == SeqsUpTo(ReportTrades, MaxTrades)

\* pairs_cache.get_pair_name_from_index
SdkPairName(pair_index) == IF pair_index = 0 THEN "BTC/USD" ELSE "ETH/USD"

\* the pair name "corrected" from the range the open price falls in
CorrectPair(trade_data) ==
    IF trade_data.open_price > 50000 THEN "BTC/USD"
    ELSE IF 1000 < trade_data.open_price /\ trade_data.open_price < 5000 THEN "ETH/USD"
    ELSE IF 50 < trade_data.open_price /\ trade_data.open_price < 500 THEN "SOL/USD"
    ELSE IF 0 < trade_data.open_price /\ trade_data.open_price < 5 THEN "XRP/USD"
    ELSE SdkPairName(trade_data.pair_index)

\* the distinct elements of a sequence, in order of first occurrence
RECURSIVE Distinct(_)
Distinct(q) ==
    IF q = <<>> THEN <<>>
    ELSE LET front == Distinct(SubSeq(q, 1, Len(q) - 1))
             x == q[Len(q)]
         IN  IF \E i \in 1..Len(front) : front[i] = x THEN front ELSE Append(front, x)

\* one whole get_prices(pairs) call as its awaiting caller sees it: the mapping
\* returned, the cache and the loaded flag it leaves.  kind is what happened:
\* the load failed, the feed answered with parsed, raised, or timed out
GetPricesAwaited(pairs, kind, parsed) ==
    IF pairs = <<>>
    THEN [results |-> EmptyMap, cache |-> cache, loaded |-> feedsLoaded]
    ELSE IF kind = "loadfail"
    THEN [results |-> EmptyMap, cache |-> cache, loaded |-> FALSE]
    ELSE IF kind = "answered"
    THEN [results |-> BatchResults(pairs, parsed, now),
          cache |-> BatchCache(cache, pairs, parsed, now), loaded |-> TRUE]
    ELSE IF kind = "timeout"
    THEN [results |-> CachedResults(cache, pairs), cache |-> cache, loaded |-> TRUE]
    ELSE [results |-> EmptyMap, cache |-> cache, loaded |-> TRUE]

\* what may happen to a get_prices call: a failed load only while the feeds
\* are not loaded, a parsed list only with an answer
FetchKinds == {"loadfail", "answered", "error", "timeout"}
PossibleFetch(kind, parsed) ==
    /\ kind = "loadfail" => ~feedsLoaded
    /\ kind # "answered" => parsed = <<>>

\* prices.update(corrected_prices)
Update(d, e) == [k \in (DOMAIN d) \cup (DOMAIN e) |-> IF k \in DOMAIN e THEN e[k] ELSE d[k]]

\* the entry of the report for one trade: gross PnL from the price movement;
\* current_price is the local of that name, kept beside the entry
ReportItem(trade_data, pair_name, current_price) ==
    LET position_size == trade_data.collateral * trade_data.leverage
        open == Rat(trade_data.open_price, 1)
        cur == Rat(current_price, 1)
        price_change_pct == IF trade_data.is_long
                            THEN RatDiv(RatSub(cur, open), open)
                            ELSE RatDiv(RatSub(open, cur), open)
        gross_pnl == RatMul(Rat(position_size, 1), price_change_pct)
    IN  [trade |-> [pair |-> pair_name, pair_index |-> trade_data.pair_index,
                    is_long |-> trade_data.is_long,
                    open_price |-> trade_data.open_price,
                    collateral |-> trade_data.collateral,
                    leverage |-> trade_data.leverage],
         gross_pnl |-> gross_pnl,
         gross_pnl_percentage |->
             RatMul(RatDiv(gross_pnl, Rat(trade_data.collateral, 1)), Rat(100, 1)),
         current_price |-> current_price]

\* get_pnl calling get_trades_with_pnl, up to the await of get_trades; a
\* malformed address raises in to_checksum_address, which the service turns
\* into the empty list, and the endpoint answers it with no position
PnlReportCall(trader) ==
    /\ pnl.pc = "idle"
    /\ IF ~IsAddress(trader)
       THEN pnl' = [IdlePnl EXCEPT !.pc = "done", !.op = "get_pnl", !.ret = "value",
                                   !.err = "ValueError", !.status = 200]
       ELSE pnl' = [IdlePnl EXCEPT !.pc = "tradesRead", !.op = "get_pnl"]
    /\ UNCHANGED <<priceVars, build>>

\* get_trades answered or raised; with no trade the report is empty
PnlTradesRead ==
    /\ pnl.pc = "tradesRead"
    /\ \E raised \in BOOLEAN, trades \in TradeLists :
         /\ raised => trades = <<>>
         /\ IF raised \/ trades = <<>>
            THEN pnl' = [pnl EXCEPT !.pc = "done", !.ret = "value", !.status = 200,
                                    !.err = IF raised THEN "SdkError" ELSE "none"]
            ELSE pnl' = [pnl EXCEPT !.pc = "pricesRead", !.trades = trades,
                             !.names = Distinct([i \in 1..Len(trades) |->
                                           SdkPairName(trades[i].pair_index)])]
    /\ UNCHANGED <<priceVars, build>>

\* prices = await price_feed_service.get_prices(pair_names)
PnlPricesRead ==
    /\ pnl.pc = "pricesRead"
    /\ \E kind \in FetchKinds, parsed \in ParsedLists :
         /\ PossibleFetch(kind, parsed)
         /\ LET got == GetPricesAwaited(pnl.names, kind, parsed)
            IN  /\ pnl' = [pnl EXCEPT !.pc = "loop", !.prices = got.results,
                                      !.fetches = 1]
                /\ cache' = got.cache
                /\ feedsLoaded' = got.loaded
    /\ UNCHANGED <<now, call, build>>

\* one turn of the loop over the trades, with the get_prices call it makes
\* for a corrected pair that was not asked for; after the last trade the
\* service returns and the endpoint goes on
PnlTradeStep ==
    /\ pnl.pc = "loop"
    /\ LET trade_data == pnl.trades[Len(pnl.result) + 1]
           pair_name == CorrectPair(trade_data)
           refetch == /\ pair_name \notin DOMAIN pnl.prices
                      /\ \A i \in 1..Len(pnl.names) : pnl.names[i] # pair_name
       IN  \E kind \in FetchKinds, parsed \in ParsedLists :
             /\ IF refetch THEN PossibleFetch(kind, parsed)
                           ELSE kind = "error" /\ parsed = <<>>
             /\ LET got == IF refetch
                           THEN GetPricesAwaited(<<pair_name>>, kind, parsed)
                           ELSE [results |-> EmptyMap, cache |-> cache,
                                 loaded |-> feedsLoaded]
                    prices == Update(pnl.prices, got.results)
                    current_price == IF pair_name \in DOMAIN prices
                                     THEN prices[pair_name][1]
                                     ELSE trade_data.open_price
                IN  /\ cache' = got.cache
                    /\ feedsLoaded' = got.loaded
                    /\ IF trade_data.open_price = 0
                       THEN \* ZeroDivisionError, caught: return []
                            pnl' = [pnl EXCEPT !.pc = "done", !.ret = "value",
                                        !.prices = prices, !.result = <<>>,
                                        !.err = "ZeroDivisionError", !.status = 200,
                                        !.fetches = @ + (IF refetch THEN 1 ELSE 0)]
                       ELSE pnl' = [pnl EXCEPT
                                !.pc = IF Len(pnl.result) + 1 = Len(pnl.trades)
                                       THEN "display" ELSE "loop",
                                !.prices = prices,
                                !.fetches = @ + (IF refetch THEN 1 ELSE 0),
                                !.result = Append(@, ReportItem(trade_data, pair_name,
                                                                current_price))]
    /\ UNCHANGED <<now, call, build>>

\* the positions of the response, as long as every pair has a price
Positions(result, prices) ==
    [i \in 1..Len(result) |->
        [trade |-> result[i].trade,
         current_price |-> prices[result[i].trade.pair][1],
         pnl |-> result[i].gross_pnl,
         pnl_percentage |-> result[i].gross_pnl_percentage]]

\* get_pnl after get_trades_with_pnl returned a non-empty list: its own
\* get_prices, then one PnLData per entry; for a pair without a price the
\* fallback trade.openPrice raises AttributeError (the field is open_price),
\* which the endpoint answers with 500
PnlDisplay ==
    /\ pnl.pc = "display"
    /\ \E kind \in FetchKinds, parsed \in ParsedLists :
         /\ PossibleFetch(kind, parsed)
         /\ LET pair_names == Distinct([i \in 1..Len(pnl.result) |->
                                           pnl.result[i].trade.pair])
                got == GetPricesAwaited(pair_names, kind, parsed)
            IN  /\ cache' = got.cache
                /\ feedsLoaded' = got.loaded
                /\ IF \A i \in 1..Len(pair_names) : pair_names[i] \in DOMAIN got.results
                   THEN pnl' = [pnl EXCEPT !.pc = "done", !.ret = "value",
                                    !.status = 200, !.fetches = @ + 1,
                                    !.positions = Positions(pnl.result, got.results)]
                   ELSE pnl' = [pnl EXCEPT !.pc = "done", !.ret = "raise",
                                    !.status = 500, !.fetches = @ + 1,
                                    !.err = "AttributeError"]
    /\ UNCHANGED <<now, call, build>>

\* the caller takes the value or the error
PnlReturn ==
    /\ pnl.pc = "done"
    /\ pnl' = IdlePnl
    /\ UNCHANGED <<priceVars, build>>

PnlNext ==
    \/ \E trade \in PnlTrades, current_price \in CurrentPrices,
          position_size_usdc \in PositionSizes, margin_fee \in MarginFees :
            CalculatePnlCall(trade, current_price, position_size_usdc, margin_fee)
    \/ \E trader \in Traders : PnlReportCall(trader)
    \/ PnlTradesRead
    \/ PnlPricesRead
    \/ PnlTradeStep
    \/ PnlDisplay
    \/ PnlReturn

\* the PnL computations
PnlSpec == Init /\ [][PnlNext]_vars

----------------------------------------------------------------------------
(* Properties of the price cache *)

PairSet(q) == {q[i] : i \in 1..Len(q)}
MinLen(a, b) == IF Len(a) < Len(b) THEN Len(a) ELSE Len(b)

\* C1: a get_price call made while the cache entry of its pair is younger than
\* the TTL returns exactly that entry, and performs neither a feed load nor a
\* fetch (so a second call inside the TTL returns the same observedAt).
C1_FreshEntryServed ==
    [][\A c \in Callers, s \in Symbols :
         ( /\ call[c].pc = "idle"
           /\ call'[c].pc # "idle"
           /\ call'[c].op = "get_price"
           /\ call'[c].pairs = <<s>>
           /\ s \in DOMAIN cache
           /\ now - cache[s][2] < CACHE_TTL )
         => /\ call'[c].pc = "done"
            /\ call'[c].ret = "value"
            /\ DOMAIN call'[c].result = {s}
            /\ call'[c].result[s] = cache[s]
            /\ call'[c].fetch = "none"
            /\ UNCHANGED <<now, cache, feedsLoaded>>]_vars

C1_Witness ==
    \E c \in Callers :
        /\ call[c].pc = "done"
        /\ call[c].op = "get_price"
        /\ call[c].fetch = "none"
        /\ call[c].ret = "value"

\* C2: when the fetch of get_price exceeds its bound and the cache holds an
\* entry for the pair, of any age, get_price returns that entry.
C2_TimeoutServesCached ==
    [][\A c \in Callers, s \in Symbols :
         ( /\ call[c].pc = "fetching"
           /\ call[c].op = "get_price"
           /\ call[c].pairs = <<s>>
           /\ call'[c].fetch = "timeout"
           /\ s \in DOMAIN cache )
         => /\ call'[c].pc = "done"
            /\ call'[c].ret = "value"
            /\ DOMAIN call'[c].result = {s}
            /\ call'[c].result[s] = cache[s]]_vars

\* a timed-out get_price served an entry older than the TTL
C2_Witness ==
    \E c \in Callers :
        /\ call[c].pc = "done"
        /\ call[c].op = "get_price"
        /\ call[c].fetch = "timeout"
        /\ call[c].ret = "value"
        /\ now - call[c].result[call[c].pairs[1]][2] >= CACHE_TTL

\* C3: when the fetch of get_price times out and the cache holds no entry for
\* the pair, get_price fails with an error that reaches its caller.
C3_TimeoutWithoutCacheRaises ==
    \A c \in Callers :
        ( /\ call[c].pc = "done"
          /\ call[c].op = "get_price"
          /\ call[c].fetch = "timeout"
          /\ call[c].pairs[1] \notin DOMAIN cache )
        => call[c].ret = "raise"

\* C4: when the batched fetch of get_prices times out, the result holds, for
\* each requested pair with a cache entry, exactly that entry, and no key for a
\* requested pair without one; a mapping is returned, not an error.
C4_BatchTimeoutServesCached ==
    \A c \in Callers :
        ( /\ call[c].pc = "done"
          /\ call[c].op = "get_prices"
          /\ call[c].fetch = "timeout" )
        => /\ call[c].ret = "value"
           /\ DOMAIN call[c].result = PairSet(call[c].pairs) \cap DOMAIN cache
           /\ \A s \in DOMAIN call[c].result : call[c].result[s] = cache[s]

\* a timed-out batch with one requested pair cached and another not
C4_Witness ==
    \E c \in Callers :
        /\ call[c].pc = "done"
        /\ call[c].op = "get_prices"
        /\ call[c].fetch = "timeout"
        /\ DOMAIN call[c].result # {}
        /\ DOMAIN call[c].result # PairSet(call[c].pairs)

\* C5: the cache changes only in a step in which a fetch completes with a
\* non-empty parsed response; a call that ends in a timeout, a feed error, a
\* failed feed load or an empty response leaves the cache as it was.
C5_CacheWrittenOnlyBySuccessfulFetch ==
    [][ /\ (cache' # cache) =>
             \E c \in Callers :
                 /\ call[c].pc = "fetching"
                 /\ call'[c].pc = "done"
                 /\ call'[c].fetch = "answered"
                 /\ Len(call'[c].resp) > 0
        /\ \A c \in Callers :
             ( /\ call[c].pc # "done"
               /\ call'[c].pc = "done"
               /\ \/ call'[c].fetch \in {"timeout", "error", "none", "cancelled"}
                  \/ Len(call'[c].resp) = 0 )
             => cache' = cache ]_vars

\* a call ended in a timeout or a feed error with entries in the cache
C5_Witness ==
    \E c \in Callers :
        /\ call[c].pc = "done"
        /\ call[c].fetch \in {"timeout", "error"}
        /\ cache # EmptyMap

\* C6: on a successful batched fetch, response item i goes to request pair i
\* for every i below both lengths, with the same (price, timestamp) in the
\* result and in the cache, and the result has no other key.
C6_BatchAssignedByPosition ==
    \A c \in Callers :
        ( /\ call[c].pc = "done"
          /\ call[c].op = "get_prices"
          /\ call[c].fetch = "answered"
          /\ Len(call[c].resp) > 0 )
        => LET n == MinLen(call[c].pairs, call[c].resp)
           IN  /\ DOMAIN call[c].result = {call[c].pairs[i] : i \in 1..n}
               /\ DOMAIN call[c].result \subseteq PairSet(call[c].pairs)
               /\ \A i \in 1..n :
                    /\ call[c].result[call[c].pairs[i]] = <<call[c].resp[i], now>>
                    /\ call[c].pairs[i] \in DOMAIN cache
                    /\ cache[call[c].pairs[i]] = call[c].result[call[c].pairs[i]]

\* a two-pair batch answered with two different prices
C6_Witness ==
    \E c \in Callers :
        /\ call[c].pc = "done"
        /\ call[c].op = "get_prices"
        /\ call[c].fetch = "answered"
        /\ Len(call[c].pairs) = 2
        /\ Len(call[c].resp) = 2
        /\ call[c].resp[1] # call[c].resp[2]

\* C7: when the router's 12 second bound around get_price expires while the
\* fetch is in flight, the fetch is not cancelled (it may still answer and
\* fill the cache).
C7_AbandonedFetchNotCancelled ==
    \A c \in Callers : call[c].ret = "abandoned" => call[c].fetch # "cancelled"

\* C8: whatever the interleaving of get_price and get_prices calls, an entry of
\* the cache is never removed and its observedAt never decreases.
C8_EntriesOnlySuperseded ==
    [][\A s \in DOMAIN cache :
         /\ s \in DOMAIN cache'
         /\ cache'[s][2] >= cache[s][2]]_vars

\* a fetch has just written a pair for which an older fetch is still in flight
C8_Witness ==
    \E c \in Callers, o \in Callers :
        /\ c # o
        /\ call[c].pc = "done"
        /\ call[c].fetch = "answered"
        /\ DOMAIN call[c].result # {}
        /\ call[o].pc = "fetching"
        /\ call[o].fetchStart < now
        /\ PairSet(call[o].pairs) \cap DOMAIN call[c].result # {}

----------------------------------------------------------------------------
(* Properties of the builders *)

\* C9: every external call is awaited under an explicit timeout (so every
\* request returns even if a collaborator never answers).
C9_EveryAwaitBounded ==
    build.pc \in {"sdkBuild", "feeRead"} => build.bounded

\* C10: every transaction returned by the open-trade and close-trade builders,
\* on either encoding path, is addressed to the Trading contract and carries
\* delegatedAction(trader, inner) with the checksummed trader of the request
\* and the openTrade / closeTradeMarket call as inner calldata.
C10_AlwaysDelegated ==
    (build.pc = "done" /\ build.ret = "tx" /\ build.op \in {"open", "close"})
    => /\ build.tx.to = TRADING
       /\ build.tx.data.fn = "delegatedAction"
       /\ build.tx.data.trader.id = build.req.trader.id
       /\ build.tx.data.trader.form = "checksum"
       /\ build.tx.data.inner.fn =
              (IF build.op = "open" THEN "openTrade" ELSE "closeTradeMarket")

\* an open-trade transaction built by manual encoding for a trader given in
\* lower case
C10_Witness ==
    /\ build.pc = "done"
    /\ build.ret = "tx"
    /\ build.op = "open"
    /\ build.path = "manual"
    /\ build.req.trader.form = "lower"

\* C11: every transaction returned by a trading or delegate builder (open,
\* close, update TP/SL, set / remove delegate) has a non-empty recipient,
\* non-empty calldata and a non-negative value.
C11_NoEmptyField ==
    (build.pc = "done" /\ build.ret = "tx")
    => /\ build.tx.to # ""
       /\ build.tx.data # NoData
       /\ build.tx.value >= 0

\* C12: the value of every open-trade and close-trade transaction is the
\* execution fee that the SDK or get_trade_execution_fee reported; when the fee
\* read fails no transaction is returned, and no default fee is substituted.
C12_FeeNeverDefaulted ==
    (build.pc = "done" /\ build.ret = "tx" /\ build.op \in {"open", "close"})
    => /\ build.tx.value = build.fee
       /\ build.feeSrc # "default"

\* C13: a close request with collateral_to_close <= 0, pair_index < 0 or
\* trade_index < 0 ends in the step that receives it, with an error, no fee
\* read, no calldata and no transaction; the fee is only ever read for a close
\* request that passed the three checks.
C13_CloseValidatedFirst ==
    [][ /\ ( /\ build.pc = "idle"
             /\ build'.op = "close"
             /\ \/ build'.req.collateral_to_close.num <= 0
                \/ build'.req.pair_index < 0
                \/ build'.req.trade_index < 0 )
           => /\ build'.pc = "done"
              /\ build'.ret = "raise"
              /\ build'.feeSrc = "none"
              /\ build'.tx = NoTx
        /\ (build'.op = "close" /\ build'.pc = "feeRead")
           => /\ build'.req.collateral_to_close.num > 0
              /\ build'.req.pair_index >= 0
              /\ build'.req.trade_index >= 0 ]_vars

\* a close request for a good trader and trade with collateral_to_close = 0
\* was refused
C13_Witness ==
    /\ build.pc = "done"
    /\ build.op = "close"
    /\ build.ret = "raise"
    /\ IsAddress(build.req.trader)
    /\ build.req.pair_index >= 0
    /\ build.req.trade_index >= 0
    /\ build.req.collateral_to_close.num = 0

\* C14: a price-feed failure that is not a timeout reaches the caller of
\* get_price / get_prices as an error, never as a normal value (None or a
\* mapping).
C14_FeedErrorPropagates ==
    \A c \in Callers :
        (call[c].pc = "done" /\ call[c].fetch = "error") => call[c].ret = "raise"

\* C15: when the feed does not answer within its timeout and get_price has no
\* price to serve, the open-trade endpoint answers 408.
C15_FeedTimeoutAnswers408 ==
    \A c \in Callers :
        ( /\ call[c].pc = "done"
          /\ call[c].via = "wait_for"
          /\ call[c].fetch \in {"timeout", "cancelled"}
          /\ call[c].ret # "value" )
        => PriceStageStatus(call[c]) = 408

\* C16: a builder that encodes calldata returns no transaction when its address
\* argument is not a well-formed address: every returned transaction was built
\* from a well-formed spender, delegate or trader.
C16_MalformedAddressRejected ==
    (build.pc = "done" /\ build.ret = "tx")
    => CASE build.op = "approve" -> IsHexAddress(build.req.spender)
         [] build.op \in {"open", "close", "set_delegate", "update_tpsl"} ->
                IsAddress(build.req.trader)
         [] OTHER -> TRUE

\* the number of bytes of 0x-prefixed hex calldata
CalldataBytes(hex) == (Len(hex) - 2) \div 2

\* the layout of approve calldata: selector, spender left-padded with zeros to
\* 32 bytes, the maximum uint256, 68 bytes in all, sent to the stablecoin
\* contract with value zero
ApproveLayout(tx, spender) ==
    LET low == Lower(spender)
        body == IF Len(low) >= 2 /\ low[1] = "0" /\ low[2] = "x"
                THEN SubSeq(low, 3, Len(low)) ELSE low
        hex == tx.data.hex
    IN  /\ CalldataBytes(hex) = 68
        /\ Len(hex) = 2 + 8 + 64 + 64
        /\ SubSeq(hex, 1, 10) = APPROVE_SELECTOR
        /\ SubSeq(hex, 11, 74 - Len(body)) = Rep("0", 64 - Len(body))
        /\ SubSeq(hex, 75 - Len(body), 74) = body
        /\ SubSeq(hex, 75, 138) = Rep("f", 64)
        /\ tx.to = USDC_ADDRESS
        /\ tx.value = 0

ExpectedTakeProfit(req) ==
    IF req.is_long
    THEN Rat(req.open_price * req.leverage.n + req.open_price, req.leverage.n)
    ELSE Rat(req.open_price * req.leverage.n - req.open_price, req.leverage.n)

\* C18: the take-profit of every open-trade transaction is
\* entry * (1 + 1/leverage) for a long and entry * (1 - 1/leverage) for a short
\* (at 8 decimals on the manual path), with stop-loss 0; entry 60,000 at
\* leverage 100 long gives 60,600.
C18_TakeProfitPlaced ==
    ( /\ build.pc = "done"
      /\ build.ret = "tx"
      /\ build.op = "open"
      /\ build.req.leverage.pow2 = 0 )
    => LET inner == build.tx.data.inner
           expected == ExpectedTakeProfit(build.req)
           example == /\ build.req.open_price = 60000
                      /\ build.req.leverage = Lev(100)
                      /\ build.req.is_long
       IN  /\ inner.sl = 0
           /\ IF build.path = "sdk"
              THEN /\ RatEq(inner.tp, expected)
                   /\ example => RatEq(inner.tp, Rat(60600, 1))
              ELSE /\ inner.tp = ScalePrice(expected)
                   /\ example => inner.tp = [units |-> 60600, frac8 |-> 0]

\* the manual path built the long at 60,000 and leverage 100
C18_Witness ==
    /\ build.pc = "done"
    /\ build.ret = "tx"
    /\ build.op = "open"
    /\ build.path = "manual"
    /\ build.req.open_price = 60000
    /\ build.req.leverage = Lev(100)
    /\ build.req.is_long
    /\ build.tx.data.inner.tp.units = 60600

\* the take-profit handed to the SDK is on the profitable side of the entry
\* price, and not negative
RightSide(b) ==
    LET tp == b.tx.data.inner.tp
        entry == Rat(b.req.open_price, 1)
    IN  /\ b.req.is_long => RatLess(entry, tp)
        /\ ~b.req.is_long => RatLess(tp, entry)
        /\ tp.num >= 0

C20_NonPositiveLeverageFails ==
    ( /\ build.op = "open"
      /\ build.pc # "idle"
      /\ build.req.leverage.n <= 0 )
    => (build.pc = "done" /\ build.ret = "raise")

----------------------------------------------------------------------------
(* Properties of the PnL computations *)

\* current - open for a long, open - current for a short
Move(trade, current_price) ==
    IF trade.is_long THEN current_price - trade.open_price
    ELSE trade.open_price - current_price

\* collateral * leverage * priceChangePct - marginFee
ExpectedNet(trade, current_price, margin_fee) ==
    Norm(Rat(trade.collateral * trade.leverage * Move(trade, current_price)
                 - margin_fee * trade.open_price,
             trade.open_price))

\* netPnL / collateral * 100, as leverage * move * 100 / open - fee * 100 / collateral
ExpectedPercent(trade, current_price, margin_fee) ==
    RatSub(Norm(Rat(trade.leverage * Move(trade, current_price) * 100, trade.open_price)),
           Norm(Rat(margin_fee * 100, trade.collateral)))

NotGiven == [given |-> FALSE, v |-> 0]

\* calculate_pnl returned the net PnL and percentage of the formula
PnlAsFormula ==
    /\ pnl.out[1] = ExpectedNet(pnl.args[1], pnl.args[2], pnl.args[4])
    /\ pnl.out[2] = ExpectedPercent(pnl.args[1], pnl.args[2], pnl.args[4])

\* every entry of the report carries calculate_pnl's values for margin fee 0
ReportAsFormula ==
    \A i \in 1..Len(pnl.result) :
        LET item == pnl.result[i]
            value == CalculatePnl(item.trade, item.current_price, NotGiven, 0)
        IN  /\ item.gross_pnl = value[1]
            /\ item.gross_pnl_percentage = value[2]
            /\ item.gross_pnl = ExpectedNet(item.trade, item.current_price, 0)

\* C21 (as stated): every value returned by calculate_pnl is
\* collateral * leverage * priceChangePct - marginFee with its percentage
\* netPnL / collateral * 100, and every entry of get_trades_with_pnl carries
\* that value for marginFee 0.
C21_PnlFormulaAlways ==
    /\ (pnl.pc = "done" /\ pnl.op = "calculate_pnl" /\ pnl.ret = "value")
          => PnlAsFormula
    /\ pnl.op = "get_pnl" => ReportAsFormula

\* C21 (amended): the same, for the calls of calculate_pnl that pass no
\* position_size_usdc.
C21_PnlFormulaDefaultSize ==
    /\ ( /\ pnl.pc = "done"
         /\ pnl.op = "calculate_pnl"
         /\ pnl.ret = "value"
         /\ ~pnl.args[3].given )
          => PnlAsFormula
    /\ pnl.op = "get_pnl" => ReportAsFormula

\* calculate_pnl returned a loss for a short with a margin fee
C21_Witness ==
    /\ pnl.pc = "done"
    /\ pnl.op = "calculate_pnl"
    /\ pnl.ret = "value"
    /\ ~pnl.args[3].given
    /\ ~pnl.args[1].is_long
    /\ pnl.args[4] = 1
    /\ pnl.out[1].num < 0

\* C22: with margin fee 0, the PnL and the percentage returned for a trade are
\* the exact negations of those of the trade of the other direction with the
\* same open price, collateral, leverage, position size and current price.
C22_LongShortNegation ==
    ( /\ pnl.pc = "done"
      /\ pnl.op = "calculate_pnl"
      /\ pnl.ret = "value"
      /\ pnl.args[4] = 0 )
    => LET twin == [pnl.args[1] EXCEPT !.is_long = ~@]
           other == CalculatePnl(twin, pnl.args[2], pnl.args[3], 0)
       IN  /\ pnl.out[1] = RatNeg(other[1])
           /\ pnl.out[2] = RatNeg(other[2])

\* calculate_pnl returned a gain for a long with no fee
C22_Witness ==
    /\ pnl.pc = "done"
    /\ pnl.op = "calculate_pnl"
    /\ pnl.ret = "value"
    /\ pnl.args[1].is_long
    /\ pnl.args[4] = 0
    /\ pnl.out[1].num > 0
    /\ pnl.out[2].num > 0

\* the number of trades of the list whose open price is not 0
RECURSIVE Priced(_)
Priced(trades) ==
    IF trades = <<>> THEN 0
    ELSE (IF Head(trades).open_price # 0 THEN 1 ELSE 0) + Priced(Tail(trades))

\* C23: a position with open price 0 fails alone: calculate_pnl raises for it,
\* and a report over several positions still has an entry for each position
\* whose open price is not 0.
C23_ZeroOpenPriceFailsAlone ==
    /\ ( /\ pnl.pc = "done"
         /\ pnl.op = "calculate_pnl"
         /\ pnl.args[1].open_price = 0 ) => pnl.ret = "raise"
    /\ ( /\ pnl.pc = "done"
         /\ pnl.op = "get_pnl"
         /\ pnl.err = "ZeroDivisionError" ) => Len(pnl.result) = Priced(pnl.trades)

\* C30: the report of get_trades_with_pnl has one entry per open trade, and
\* an entry whose pair has no current price carries the open price as current
\* price and a PnL of 0; when the report is not empty, the endpoint answers
\* 200 with one position per open trade, whether or not a current price is
\* available for each pair.
C30_UnpricedPositionReported ==
    /\ pnl.pc = "display"
       => /\ Len(pnl.result) = Len(pnl.trades)
          /\ \A i \in 1..Len(pnl.result) :
               pnl.result[i].trade.pair \notin DOMAIN pnl.prices
               => /\ pnl.result[i].current_price = pnl.result[i].trade.open_price
                  /\ pnl.result[i].gross_pnl.num = 0
    /\ ( /\ pnl.pc = "done"
         /\ pnl.op = "get_pnl"
         /\ pnl.result # <<>> )
       => /\ Len(pnl.result) = Len(pnl.trades)
          /\ pnl.status = 200
          /\ Len(pnl.positions) = Len(pnl.trades)

----------------------------------------------------------------------------
(* Properties of the manual encodings *)

\* round(x * 10^8) for x >= 0 in the two limbs of ScalePrice; a half is
\* rounded up (no input of the model falls on a half)
RoundPrice(x) ==
    LET r0 == x.num % x.den
        r1 == (r0 * 10000) % x.den
        r2 == (r1 * 10000) % x.den
        cut == ScalePrice(x)
    IN  IF 2 * r2 < x.den THEN cut
        ELSE IF cut.frac8 + 1 = PRICE_DECIMALS
        THEN [units |-> cut.units + 1, frac8 |-> 0]
        ELSE [units |-> cut.units, frac8 |-> cut.frac8 + 1]

\* round(x * 10^6) for x >= 0
RoundCollateral(x) ==
    LET r == (x.num * 1000000) % x.den
    IN  ScaleCollateral(x) + (IF 2 * r < x.den THEN 0 ELSE 1)

\* the integer held in the three limbs of ScaleGuide, in the two limbs of
\* ScalePrice
GuideAsPrice(v) ==
    [units |-> v.units * 100 + v.frac8 \div 1000000,
     frac8 |-> (v.frac8 % 1000000) * 100 + v.frac2]

\* the inner openTrade calldata of a finished manual open build
ManualOpenDone ==
    build.pc = "done" /\ build.op = "open" /\ build.ret = "tx" /\ build.path = "manual"

\* C24: every number written into manually encoded calldata is
\* round(value * 10^d), d = 8 for the open price and the take-profit and d = 6
\* for USDC amounts, leverage and slippage are written as raw integers, and
\* every site that encodes (the open builder, the close builder, both
\* encodings of the debug endpoint) follows this one convention.
C24_ScaledByRounding ==
    /\ ManualOpenDone
       => LET inner == build.tx.data.inner
              req == build.req
          IN  /\ inner.open_price = RoundPrice(Rat(req.open_price, 1))
              /\ inner.tp = RoundPrice(CalculateTakeProfit(req.open_price, req.is_long,
                                                          req.leverage))
              /\ inner.collateral = RoundCollateral(req.collateral)
              /\ inner.leverage = req.leverage
              /\ inner.slippage = 1
    /\ (build.pc = "done" /\ build.op = "close" /\ build.ret = "tx")
       => build.tx.data.inner.collateral_usdc
             = RoundCollateral(build.req.collateral_to_close)
    /\ (build.pc = "done" /\ build.op = "debug" /\ build.ret = "dict")
       => LET backend == build.tx.backend.data.inner
              guide == build.tx.guide.data.inner
          IN  /\ backend.leverage = build.req.leverage
              /\ backend.slippage = 1
              /\ GuideAsPrice(guide.open_price) = backend.open_price
              /\ GuideAsPrice(guide.tp) = backend.tp
              /\ GuideAsPrice(guide.leverage) = [units |-> 0, frac8 |-> build.req.leverage]
              /\ GuideAsPrice(guide.slippage) = [units |-> 0, frac8 |-> 1]

\* C25: the inner open-trade calldata encodes a trade struct of 11 ordered
\* members followed by the order type and the slippage, on every path that
\* encodes it by hand (the manual path of the open builder and the debug
\* endpoint).
C25_StructOfElevenFields ==
    /\ ManualOpenDone
       => /\ Len(build.tx.data.inner.layout) = 11
          /\ build.tx.data.inner.order_type = "MARKET_ZERO_FEE"
          /\ build.tx.data.inner.slippage = 1
    /\ (build.pc = "done" /\ build.op = "debug" /\ build.ret = "dict")
       => /\ Len(build.tx.backend.data.inner.layout) = 11
          /\ Len(build.tx.guide.data.inner.layout) = 11
          /\ build.tx.backend.data.inner.order_type = "MARKET_ZERO_FEE"
          /\ build.tx.guide.data.inner.order_type = "MARKET_ZERO_FEE"

----------------------------------------------------------------------------
(* Properties of the price cache under concurrent callers *)

\* caller c ends its fetch in this step with an answer holding a price for s
Wrote(c, s) ==
    /\ call[c].pc = "fetching"
    /\ call'[c].pc = "done"
    /\ call'[c].fetch = "answered"
    /\ s \in DOMAIN call'[c].result

\* caller c starts get_price(s) in this step and finds no fresh entry
Missed(c, s) ==
    /\ call[c].pc = "idle"
    /\ call'[c].op = "get_price"
    /\ call'[c].pairs = <<s>>
    /\ ~(s \in DOMAIN cache /\ Fresh(cache[s], now))

\* C26: under every interleaving of concurrent get_price / get_prices calls,
\* a cache entry is only ever replaced as a whole, by the (price, timestamp)
\* pair of one fetch that completes in that step; every fetch that completes
\* with a price for a symbol leaves its own pair in the cache, so the entry is
\* the pair of the fetch that completed last; entries are never removed; and a
\* call that misses the cache issues its own fetch even while another fetch
\* for the same symbol is pending.
C26_EntryFromOneFetch ==
    [][ \A s \in Symbols :
          /\ s \in DOMAIN cache => s \in DOMAIN cache'
          /\ ( /\ s \in DOMAIN cache'
               /\ (s \in DOMAIN cache => cache'[s] # cache[s]) )
             => \E c \in Callers : Wrote(c, s) /\ cache'[s] = call'[c].result[s]
          /\ \A c \in Callers :
               /\ Wrote(c, s) => (s \in DOMAIN cache' /\ cache'[s] = call'[c].result[s])
               /\ (Missed(c, s) /\ feedsLoaded')
                  => (call'[c].pc = "fetching" /\ call'[c].fetch = "pending") ]_vars

\* two fetches for BTC/USD were pending together; the one of c2 has just
\* completed and its pair is the cache entry, while that of c1 is still pending
C26_Witness ==
    /\ call["c1"].pc = "fetching"
    /\ call["c1"].pairs = <<"BTC/USD">>
    /\ call["c2"].pc = "done"
    /\ call["c2"].op = "get_price"
    /\ call["c2"].pairs = <<"BTC/USD">>
    /\ call["c2"].fetch = "answered"
    /\ call["c1"].fetchStart < now
    /\ "BTC/USD" \in DOMAIN cache
    /\ cache["BTC/USD"] = <<2, now>>
    /\ call["c2"].result["BTC/USD"] = cache["BTC/USD"]

\* caller c starts get_prices in this step
StartsBatch(c) == call[c].pc = "idle" /\ call'[c].op = "get_prices"

\* every requested pair has a fresh cache entry
AllFresh(pairs) ==
    \A i \in 1..Len(pairs) : pairs[i] \in DOMAIN cache /\ Fresh(cache[pairs[i]], now)

\* get_prices([]) returns the empty mapping at once: no load, no fetch
EmptyListAnswered(c) ==
    /\ call'[c].pc = "done"
    /\ call'[c].result = EmptyMap
    /\ call'[c].loaded = "none"
    /\ call'[c].fetch = "none"
    /\ UNCHANGED <<now, feedsLoaded, cache>>

\* a get_prices call that ends otherwise than by the timeout returns what the
\* response gave, whatever the cache holds
CacheReadOnlyOnTimeout(c) ==
    ( /\ call[c].pc = "fetching"
      /\ call[c].op = "get_prices"
      /\ call'[c].pc = "done"
      /\ call'[c].fetch # "timeout" )
    => call'[c].result = BatchResults(call[c].pairs, call'[c].resp, now)

\* C28 as stated: get_prices never serves from the cache by TTL; for every
\* non-empty list it issues the batched fetch, even when every requested pair
\* has a fresh entry; the cache is read only on timeout; for the empty list it
\* returns the empty mapping without loading feeds or fetching.
C28_AlwaysFetches ==
    [][ \A c \in Callers :
          /\ StartsBatch(c)
             => IF call'[c].pairs = <<>> THEN EmptyListAnswered(c)
                ELSE call'[c].pc = "fetching" /\ call'[c].fetch = "pending"
          /\ CacheReadOnlyOnTimeout(c) ]_vars

\* C28 amended: for a non-empty list the batched fetch is issued whenever the
\* feeds are loaded or load in this call, in particular whenever every
\* requested pair has a fresh entry; when load_pair_feeds raises, the call
\* returns the empty mapping without fetching and without reading the cache.
C28_FetchesOnceLoaded ==
    [][ \A c \in Callers :
          /\ StartsBatch(c)
             => IF call'[c].pairs = <<>> THEN EmptyListAnswered(c)
                ELSE /\ feedsLoaded'
                        => (call'[c].pc = "fetching" /\ call'[c].fetch = "pending")
                     /\ AllFresh(call'[c].pairs) => call'[c].pc = "fetching"
                     /\ ~feedsLoaded'
                        => /\ call'[c].pc = "done"
                           /\ call'[c].fetch = "none"
                           /\ call'[c].result = EmptyMap
          /\ CacheReadOnlyOnTimeout(c) ]_vars

\* get_prices for BTC/USD and ETH/USD has just issued its fetch although both
\* have a fresh cache entry
C28_Witness ==
    \E c \in Callers :
      /\ call[c].pc = "fetching"
      /\ call[c].op = "get_prices"
      /\ Len(call[c].pairs) = 2
      /\ call[c].fetchStart = now
      /\ AllFresh(call[c].pairs)

\* caller c enters get_price or get_prices in this step
Starts(c) == call[c].pc = "idle" /\ call'[c].pc # "idle"

\* the call that starts goes past the cache check of get_price, or past the
\* empty-list check of get_prices
ReachesLoad(c) ==
    \/ \E s \in Symbols : Missed(c, s)
    \/ (call'[c].op = "get_prices" /\ call'[c].pairs # <<>>)

\* C29: a fetch is issued only with the feeds loaded; the flag is raised only
\* by a call whose load_pair_feeds returned; a load that raised leaves the
\* flag unset and ends the call without a fetch, and while the flag is unset
\* every call that reaches _ensure_feeds_loaded loads again; once the flag is
\* set it stays set and no call loads again.
C29_LoadBeforeFetch ==
    [][ /\ (~feedsLoaded /\ feedsLoaded')
           => \E c \in Callers : Starts(c) /\ call'[c].loaded = "ok"
        /\ feedsLoaded => feedsLoaded'
        /\ \A c \in Callers :
             Starts(c)
             => /\ call'[c].pc = "fetching"
                   => (feedsLoaded' /\ call'[c].loaded \in {"ok", "skipped"})
                /\ feedsLoaded
                   => (call'[c].loaded \in {"none", "skipped"} /\ now' = now)
                /\ call'[c].loaded = "failed"
                   => (~feedsLoaded' /\ call'[c].pc = "done" /\ call'[c].fetch = "none")
                /\ (~feedsLoaded /\ ReachesLoad(c))
                   => call'[c].loaded \in {"ok", "failed"} ]_vars

\* c1 loaded the feeds and fetches; c2, called later, fetches without loading
C29_Witness ==
    /\ feedsLoaded
    /\ call["c1"].pc = "fetching"
    /\ call["c1"].loaded = "ok"
    /\ call["c2"].pc = "fetching"
    /\ call["c2"].loaded = "skipped"

----------------------------------------------------------------------------
(* Properties of the open builder's choice of encoding *)

====
